---- MODULE Spec2Model ----
(***************************************************************************)
(* A state-machine model of scanRegistration.cpp (LOAM scan registration). *)
(*                                                                         *)
(* Two callbacks drive the node, each run to completion (ros::spin on one  *)
(* thread): laserCloudHandler (one sweep) and imuHandler (one IMU sample). *)
(*                                                                         *)
(* Arithmetic.  The program computes in float/double; the model computes   *)
(* in integers over fixed units and rounds where the program rounds:       *)
(*   lengths        1 = 1 cm            (squared lengths: 1 = 1 cm^2)      *)
(*   time           1 = 10 ms           (scanPeriod = 0.1 s = 10)          *)
(*   angles         1 = pi/4            (M_PI = 4)                         *)
(*   acceleration   1 = 1 cm/s^2        (9.81 m/s^2 = 981)                 *)
(*   velocity       1 = acc*time unit   (imuVeloX, Y, Z)                   *)
(*   shift          1 = acc*time^2 / 2  (imuShiftX, Y, Z; 20000 = 1 cm)    *)
(* Ratios (relTime, the intensity, interpolation weights) are kept as      *)
(* exact fractions num/den and only divided where a length is produced.    *)
(***************************************************************************)
EXTENDS Integers, Sequences, FiniteSets, TLC

(***************************************************************************)
(* Program constants                                                       *)
(***************************************************************************)
scanPeriod == 10
TicksPerSecond == 10 * scanPeriod
systemDelay == 20
N_SCANS == 16
imuQueLength == 200
M_PI == 4
Gravity == 981
CurvatureThreshold == 1000
OcclusionGap == 1000
OcclusionRatio == 10
OutlierRatio == 5000
SpreadGap == 500
SectorCount == 6
SharpCap == 2
LessSharpCap == 20
FlatCap == 4
CurvatureHalfWindow == 5
ShiftPerCm == 2 * 100 * 100

(***************************************************************************)
(* Bounds of the model                                                     *)
(***************************************************************************)
\* size of the model's copy of the 40000-entry scratch arrays
ArrLen == 170

(***************************************************************************)
(* Arithmetic helpers                                                      *)
(***************************************************************************)
Abs(n) == IF n < 0 THEN -n ELSE n

\* C integer division and int(float): truncation toward zero; d # 0
Quot(n, d) ==
  IF (n >= 0) = (d > 0) THEN Abs(n) \div Abs(d) ELSE -(Abs(n) \div Abs(d))

\* the largest digit d in 0..35 with (base + d * unit)^2 <= n
SqrtDigit(n, base, unit) ==
  Cardinality({d \in 1..35 : base + d * unit <= 46340
                             /\ (base + d * unit) * (base + d * unit) <= n})

\* sqrt, rounded down to the unit, digit by digit in base 36; 0 <= n < 2^31
Sqrt(n) ==
  LET a == 1296 * SqrtDigit(n, 0, 1296)
      b == a + 36 * SqrtDigit(n, a, 36)
  IN b + SqrtDigit(n, b, 1)

\* atan2(y, x), rounded to the nearest multiple of pi/4:
\* tan(pi/8) = 0.41421 ~ 29/70, tan(3 pi/8) = 2.41421 ~ 70/29
Atan2(y, x) ==
  LET ax == Abs(x)
      ay == Abs(y)
      th == IF 70 * ay < 29 * ax THEN 0
            ELSE IF 29 * ay > 70 * ax THEN 2 ELSE 1
  IN IF x = 0 /\ y = 0 THEN 0
     ELSE IF y >= 0 THEN (IF x >= 0 THEN th ELSE M_PI - th)
     ELSE (IF x >= 0 THEN -th ELSE th - M_PI)

\* 10^4 * tan((k + 1/2) degrees), k = 0..17
TanHalfDegree ==
  <<87, 262, 437, 612, 787, 963, 1139, 1317, 1495, 1673, 1853, 2035,
    2217, 2401, 2586, 2773, 2962, 3153>>

\* |atan(t / h)| in degrees, rounded half away from zero, saturating at
\* Len(TanHalfDegree) (every angle beyond 16.5 degrees is out of the field
\* of view whatever its value); h = 0 is atan(+-inf) = 90 degrees
RoundedDegrees(t, h) ==
  IF h = 0 THEN Len(TanHalfDegree)
  ELSE Cardinality({k \in 1..Len(TanHalfDegree) : t * 10000 >= TanHalfDegree[k] * h})

(***************************************************************************)
(* Points.  A raw sensor point is [nan, x, y, z]; a registered point is    *)
(* [x, y, z, inum, iden] with intensity = inum / iden.                     *)
(***************************************************************************)
RawPoint(x, y, z) == [nan |-> FALSE, x |-> x, y |-> y, z |-> z]
NaNPoint == [nan |-> TRUE, x |-> 0, y |-> 0, z |-> 0]

\* pcl::removeNaNFromPointCloud
removeNaNFromPointCloud(cloud) == SelectSeq(cloud, LAMBDA p : ~p.nan)

\* int(point.intensity)
IntensityInt(p) == Quot(p.inum, p.iden)

SqDist(p, q) ==
  (p.x - q.x) * (p.x - q.x) + (p.y - q.y) * (p.y - q.y) + (p.z - q.z) * (p.z - q.z)

SqNorm(p) == p.x * p.x + p.y * p.y + p.z * p.z

(***************************************************************************)
(* Sweep ingestion: azimuth framing, beam index, relative time             *)
(***************************************************************************)
\* startOri = -atan2(points[0].y, points[0].x)
StartOri(p0) == -Atan2(p0.y, p0.x)

\* endOri = -atan2(points[cloudSize-1].y, points[cloudSize-1].x) + 2*M_PI
RawEndOri(pN) == -Atan2(pN.y, pN.x) + 2 * M_PI

\* the single correction step of endOri
NormalizeEndOri(startOri, endOri) ==
  IF endOri - startOri > 3 * M_PI THEN endOri - 2 * M_PI
  ELSE IF endOri - startOri < M_PI THEN endOri + 2 * M_PI
  ELSE endOri

\* axis exchange: point.x = in.y, point.y = in.z, point.z = in.x
AxisRemap(p) == [x |-> p.y, y |-> p.z, z |-> p.x]

\* roundedAngle = int(angle + (angle < 0.0 ? -0.5 : +0.5))
RoundedAngle(point) ==
  LET h == Sqrt(point.x * point.x + point.z * point.z)
      m == RoundedDegrees(Abs(point.y), h)
  IN IF point.y < 0 THEN -m ELSE m

ScanID(point) ==
  LET roundedAngle == RoundedAngle(point)
  IN IF roundedAngle > 0 THEN roundedAngle ELSE roundedAngle + (N_SCANS - 1)

\* the azimuth of a point and the halfPassed latch after it
\* (the result is <<ori, halfPassed>>)
PointOri(point, startOri, endOri, halfPassed) ==
  LET ori == -Atan2(point.x, point.z)
  IN IF ~halfPassed
     THEN LET o1 == IF 2 * ori < 2 * startOri - M_PI THEN ori + 2 * M_PI
                    ELSE IF 2 * ori > 2 * startOri + 3 * M_PI THEN ori - 2 * M_PI
                    ELSE ori
          IN <<o1, o1 - startOri > M_PI>>
     ELSE LET o0 == ori + 2 * M_PI
              o1 == IF 2 * o0 < 2 * endOri - 3 * M_PI THEN o0 + 2 * M_PI
                    ELSE IF 2 * o0 > 2 * endOri + M_PI THEN o0 - 2 * M_PI
                    ELSE o0
          IN <<o1, TRUE>>

\* point.intensity = scanID + scanPeriod * relTime, relTime = relNum / relDen
WithIntensity(point, scanID, relNum, relDen) ==
  [x |-> point.x, y |-> point.y, z |-> point.z,
   inum |-> scanID * TicksPerSecond * relDen + scanPeriod * relNum,
   iden |-> TicksPerSecond * relDen]

(***************************************************************************)
(* Rotations.  sin and cos are exact at the multiples of pi/2; at the odd  *)
(* multiples of pi/4, which interpolation between two orientations can     *)
(* produce, they are 0.7071 ~ 12/17.  Sin and Cos give the numerator over  *)
(* TrigDen of the angle.                                                   *)
(***************************************************************************)
TrigDen(a) == IF a % 2 = 0 THEN 1 ELSE 17

Sin(a) ==
  CASE a % (2 * M_PI) = 0 -> 0
    [] a % (2 * M_PI) = 1 -> 12
    [] a % (2 * M_PI) = 2 -> 1
    [] a % (2 * M_PI) = 3 -> 12
    [] a % (2 * M_PI) = 4 -> 0
    [] a % (2 * M_PI) = 5 -> -12
    [] a % (2 * M_PI) = 6 -> -1
    [] a % (2 * M_PI) = 7 -> -12

Cos(a) == Sin(a + M_PI \div 2)

Vec(x, y, z) == [x |-> x, y |-> y, z |-> z]

\* Rz(roll), Rx(pitch), Ry(yaw) as the source writes them out
RotZ(a, v) ==
  Vec(Quot(Cos(a) * v.x - Sin(a) * v.y, TrigDen(a)),
      Quot(Sin(a) * v.x + Cos(a) * v.y, TrigDen(a)), v.z)
RotX(a, v) ==
  Vec(v.x, Quot(Cos(a) * v.y - Sin(a) * v.z, TrigDen(a)),
      Quot(Sin(a) * v.y + Cos(a) * v.z, TrigDen(a)))
RotY(a, v) ==
  Vec(Quot(Cos(a) * v.x + Sin(a) * v.z, TrigDen(a)), v.y,
      Quot(-Sin(a) * v.x + Cos(a) * v.z, TrigDen(a)))

\* body to world: Ry(yaw) * Rx(pitch) * Rz(roll)
ToWorld(roll, pitch, yaw, v) == RotY(yaw, RotX(pitch, RotZ(roll, v)))

\* world to the frame of the first point: Rz(-roll) * Rx(-pitch) * Ry(-yaw)
ToStart(roll, pitch, yaw, v) == RotZ(-roll, RotX(-pitch, RotY(-yaw, v)))

(***************************************************************************)
(* The IMU ring: imuTime, imuRoll, imuPitch, imuYaw, imuAccX/Y/Z,          *)
(* imuVeloX/Y/Z, imuShiftX/Y/Z, one record per slot                        *)
(***************************************************************************)
ImuSlots == 0 .. imuQueLength - 1

EmptySlot ==
  [time |-> 0, roll |-> 0, pitch |-> 0, yaw |-> 0, acc |-> Vec(0, 0, 0),
   velo |-> Vec(0, 0, 0), shift |-> Vec(0, 0, 0)]

\* the state the sweep callback reads from one slot
ImuState(slot) ==
  [roll |-> slot.roll, pitch |-> slot.pitch, yaw |-> slot.yaw,
   velo |-> slot.velo, shift |-> slot.shift]

ZeroImuState ==
  [roll |-> 0, pitch |-> 0, yaw |-> 0, velo |-> Vec(0, 0, 0), shift |-> Vec(0, 0, 0)]

\* the integration without the term imuVelo[imuPointerBack] * timeDiff
AccumulateIMUShift_NoVelocityTerm(ring, imuPointerLast_) ==
  LET cur == ring[imuPointerLast_]
      acc == ToWorld(cur.roll, cur.pitch, cur.yaw, cur.acc)
      back == ring[(imuPointerLast_ + imuQueLength - 1) % imuQueLength]
      timeDiff == cur.time - back.time
  IN IF timeDiff < scanPeriod
     THEN [ring EXCEPT ![imuPointerLast_] =
            [cur EXCEPT
               !.shift = Vec(back.shift.x + acc.x * timeDiff * timeDiff,
                             back.shift.y + acc.y * timeDiff * timeDiff,
                             back.shift.z + acc.z * timeDiff * timeDiff),
               !.velo = Vec(back.velo.x + acc.x * timeDiff,
                            back.velo.y + acc.y * timeDiff,
                            back.velo.z + acc.z * timeDiff)]]
     ELSE ring

\* AccumulateIMUShift(): the ring after integrating the slot just written
AccumulateIMUShift(ring, imuPointerLast_) ==
  LET cur == ring[imuPointerLast_]
      acc == ToWorld(cur.roll, cur.pitch, cur.yaw, cur.acc)
      imuPointerBack == (imuPointerLast_ + imuQueLength - 1) % imuQueLength
      back == ring[imuPointerBack]
      timeDiff == cur.time - back.time
  IN IF timeDiff < scanPeriod
     THEN [ring EXCEPT ![imuPointerLast_] =
            [cur EXCEPT
               !.shift = Vec(back.shift.x + 2 * back.velo.x * timeDiff + acc.x * timeDiff * timeDiff,
                             back.shift.y + 2 * back.velo.y * timeDiff + acc.y * timeDiff * timeDiff,
                             back.shift.z + 2 * back.velo.z * timeDiff + acc.z * timeDiff * timeDiff),
               !.velo = Vec(back.velo.x + acc.x * timeDiff,
                            back.velo.y + acc.y * timeDiff,
                            back.velo.z + acc.z * timeDiff)]]
     ELSE ring

\* the gravity-free acceleration in the internal axes (imuHandler)
RemoveGravity(roll, pitch, lin) ==
  Vec(lin.y - Quot(Sin(roll) * Cos(pitch) * Gravity, TrigDen(roll) * TrigDen(pitch)),
      lin.z - Quot(Cos(roll) * Cos(pitch) * Gravity, TrigDen(roll) * TrigDen(pitch)),
      lin.x + Quot(Sin(pitch) * Gravity, TrigDen(pitch)))

\* the ring after imuHandler stored a sample [time, roll, pitch, yaw, lin]
\* in slot `slot` and integrated it
StoreImu(ring, slot, s) ==
  AccumulateIMUShift(
    [ring EXCEPT ![slot] =
       [@ EXCEPT !.time = s.time, !.roll = s.roll, !.pitch = s.pitch, !.yaw = s.yaw,
                 !.acc = RemoveGravity(s.roll, s.pitch, s.lin)]],
    slot)

(***************************************************************************)
(* Motion compensation of one point at time                                *)
(*   tp = timeScanCur + scanPeriod * relNum / relDen = tpNum / relDen      *)
(***************************************************************************)
\* the first k in lo .. hi with tp < imuTime[(front + k) % imuQueLength],
\* or -1 if there is none
RECURSIVE FirstStop(_, _, _, _, _, _)
FirstStop(ring, front, tpNum, relDen, lo, hi) ==
  IF lo > hi THEN -1
  ELSE IF lo = hi
  THEN (IF tpNum < ring[(front + lo) % imuQueLength].time * relDen THEN lo ELSE -1)
  ELSE LET k == FirstStop(ring, front, tpNum, relDen, lo, (lo + hi) \div 2)
       IN IF k >= 0 THEN k
          ELSE FirstStop(ring, front, tpNum, relDen, (lo + hi) \div 2 + 1, hi)

\* AdvanceFront stepping once more when no slot holds a later stamp
AdvanceFront_PastLast(ring, front, last, tpNum, relDen) ==
  LET n == (last - front + imuQueLength) % imuQueLength
      k == FirstStop(ring, front, tpNum, relDen, 0, n - 1)
  IN IF k >= 0 THEN (front + k) % imuQueLength ELSE (last + 1) % imuQueLength

\* while (imuPointerFront != imuPointerLast) { if (tp < imuTime[front]) break;
\* imuPointerFront = (imuPointerFront + 1) % imuQueLength; }: the cursor stops
\* at the first slot with a later stamp, or at imuPointerLast
AdvanceFront(ring, front, last, tpNum, relDen) ==
  LET n == (last - front + imuQueLength) % imuQueLength
      k == FirstStop(ring, front, tpNum, relDen, 0, n - 1)
  IN IF k >= 0 THEN (front + k) % imuQueLength ELSE last

\* front * ratioFront + back * ratioBack, ratio = w / den
Lerp(f, wf, b, wb, den) == Quot(f * wf + b * wb, den)

LerpVec(f, wf, b, wb, den) ==
  Vec(Lerp(f.x, wf, b.x, wb, den), Lerp(f.y, wf, b.y, wb, den), Lerp(f.z, wf, b.z, wb, den))

\* imuRollCur .. imuShiftZCur for the point, with the cursor already advanced
ImuCurAt(ring, front, tpNum, relDen) ==
  IF tpNum > ring[front].time * relDen
  THEN ImuState(ring[front])
  ELSE LET imuPointerBack == (front + imuQueLength - 1) % imuQueLength
           f == ring[front]
           b == ring[imuPointerBack]
           den == (f.time - b.time) * relDen
           ratioFront == tpNum - b.time * relDen
           ratioBack == f.time * relDen - tpNum
           yawBack == IF f.yaw - b.yaw > M_PI THEN b.yaw + 2 * M_PI
                      ELSE IF f.yaw - b.yaw < -M_PI THEN b.yaw - 2 * M_PI
                      ELSE b.yaw
       IN [roll |-> Lerp(f.roll, ratioFront, b.roll, ratioBack, den),
           pitch |-> Lerp(f.pitch, ratioFront, b.pitch, ratioBack, den),
           yaw |-> Lerp(f.yaw, ratioFront, yawBack, ratioBack, den),
           velo |-> LerpVec(f.velo, ratioFront, b.velo, ratioBack, den),
           shift |-> LerpVec(f.shift, ratioFront, b.shift, ratioBack, den)]

\* ShiftToStartIMU(pointTime): imuShiftFromStart{X,Y,Z}Cur, in shift units
ShiftToStartIMU(cur, start, relNum, relDen) ==
  LET drift(v) == Quot(2 * v * scanPeriod * relNum, relDen)
  IN ToStart(start.roll, start.pitch, start.yaw,
             Vec(cur.shift.x - start.shift.x - drift(start.velo.x),
                 cur.shift.y - start.shift.y - drift(start.velo.y),
                 cur.shift.z - start.shift.z - drift(start.velo.z)))

\* VeloToStartIMU(): imuVeloFromStart{X,Y,Z}Cur
VeloToStartIMU(cur, start) ==
  ToStart(start.roll, start.pitch, start.yaw,
          Vec(cur.velo.x - start.velo.x, cur.velo.y - start.velo.y,
              cur.velo.z - start.velo.z))

\* TransformToStartIMU(&point): the de-skewed coordinates
TransformToStartIMU(point, cur, start, shiftFromStart) ==
  LET w == ToWorld(cur.roll, cur.pitch, cur.yaw, point)
      l == ToStart(start.roll, start.pitch, start.yaw, w)
  IN Vec(l.x + Quot(shiftFromStart.x, ShiftPerCm),
         l.y + Quot(shiftFromStart.y, ShiftPerCm),
         l.z + Quot(shiftFromStart.z, ShiftPerCm))

(***************************************************************************)
(* laserCloudHandler, ingestion loop (for i = 0 .. cloudSize-1).           *)
(* `g` carries what the loop updates: halfPassed, count, laserCloudScans,  *)
(* imuPointerFront, imu*Cur, imu*Start, imuShiftFromStart*Cur,             *)
(* imuVeloFromStart*Cur, and the loop index i.  `in` is laserCloudIn after *)
(* NaN removal.                                                            *)
(***************************************************************************)
Beams == 0 .. N_SCANS - 1

\* the point stored in its beam, and the IMU state latched: `cur` is the
\* IMU state at the time of the point, `front` the cursor that found it.
\* `trace` notes for every kept point, in the order of ingestion: the loop
\* index i, the beam, relTime = relNum / relDen, halfPassed as the point
\* found it, how its IMU state was read (g.bracket), that state, the start
\* state it was de-skewed against, and the point before and after de-skew
StorePoint(g, point, scanID, halfPassed, relNum, relDen, front, cur, imuPointerLast_) ==
  LET sfs == ShiftToStartIMU(cur, g.start, relNum, relDen)
      placed == IF imuPointerLast_ >= 0 /\ g.i # 0
                THEN TransformToStartIMU(point, cur, g.start,
                                         ShiftToStartIMU(cur, g.start, relNum, relDen))
                ELSE point
  IN [g EXCEPT
        !.i = @ + 1,
        !.halfPassed = halfPassed,
        !.scans[scanID] = Append(@, WithIntensity(placed, scanID, relNum, relDen)),
        !.front = IF imuPointerLast_ < 0 THEN @ ELSE front,
        !.cur = IF imuPointerLast_ < 0 THEN @ ELSE cur,
        !.start = IF imuPointerLast_ >= 0 /\ g.i = 0 THEN cur ELSE @,
        !.shiftFromStart = IF imuPointerLast_ >= 0 /\ g.i # 0 THEN sfs ELSE @,
        !.veloFromStart = IF imuPointerLast_ >= 0 /\ g.i # 0
                          THEN VeloToStartIMU(cur, g.start) ELSE @,
        !.trace = Append(@, [i |-> g.i, scanID |-> scanID, relNum |-> relNum,
                             relDen |-> relDen, halfPassed |-> g.halfPassed,
                             imu |-> imuPointerLast_ >= 0, bracket |-> g.bracket,
                             from |-> g.front,
                             cur |-> IF imuPointerLast_ >= 0 THEN cur ELSE g.cur,
                             start |-> IF imuPointerLast_ >= 0 /\ g.i = 0 THEN cur
                                       ELSE g.start,
                             deskewed |-> imuPointerLast_ >= 0 /\ g.i # 0,
                             point |-> point,
                             placed |-> Vec(placed.x, placed.y, placed.z)])]

\* how the branch at `if (timeScanCur + pointTime > imuTime[imuPointerFront])`
\* reads the ring for the time tp = tpNum / relDen: `interpolated` is the
\* else branch, between the slots back and front
Bracket(ring, front, tpNum, relDen) ==
  [interpolated |-> ~(tpNum > ring[front].time * relDen),
   front |-> front, back |-> (front + imuQueLength - 1) % imuQueLength,
   timeFront |-> ring[front].time,
   timeBack |-> ring[(front + imuQueLength - 1) % imuQueLength].time,
   tpNum |-> tpNum, relDen |-> relDen]

\* the IMU state at the time tp = tpNum / relDen of the point
Compensate(g, point, scanID, halfPassed, relNum, relDen, tpNum, front, imuPointerLast_, ring) ==
  StorePoint([g EXCEPT !.bracket = IF imuPointerLast_ >= 0
                                   THEN Bracket(ring, front, tpNum, relDen) ELSE @],
             point, scanID, halfPassed, relNum, relDen, front,
             ImuCurAt(ring, front, tpNum, relDen), imuPointerLast_)

\* relTime = (ori - startOri) / (endOri - startOri) of the point of azimuth
\* oh[1], and the IMU cursor moved up to its time
TimePoint(g, point, scanID, oh, startOri, endOri, timeScanCur, imuPointerLast_, ring) ==
  Compensate(g, point, scanID, oh[2], oh[1] - startOri, endOri - startOri,
             timeScanCur * (endOri - startOri) + scanPeriod * (oh[1] - startOri),
             AdvanceFront(ring, g.front, imuPointerLast_,
                          timeScanCur * (endOri - startOri)
                            + scanPeriod * (oh[1] - startOri),
                          endOri - startOri),
             imuPointerLast_, ring)

\* the point dropped if its beam is out of range, else timed and stored
SortPoint(g, point, scanID, startOri, endOri, timeScanCur, imuPointerLast_, ring) ==
  IF scanID > N_SCANS - 1 \/ scanID < 0
  THEN [g EXCEPT !.count = @ - 1, !.i = @ + 1]
  ELSE TimePoint(g, point, scanID, PointOri(point, startOri, endOri, g.halfPassed),
                 startOri, endOri, timeScanCur, imuPointerLast_, ring)

RemapPoint(g, point, startOri, endOri, timeScanCur, imuPointerLast_, ring) ==
  SortPoint(g, point, ScanID(point), startOri, endOri, timeScanCur, imuPointerLast_, ring)

\* iteration i = g.i of the loop
IngestPoint(g, in, startOri, endOri, timeScanCur, imuPointerLast_, ring) ==
  RemapPoint(g, AxisRemap(in[g.i + 1]), startOri, endOri, timeScanCur,
             imuPointerLast_, ring)

\* the next n iterations of for (int i = 0; i < cloudSize; i++), from
\* i = g.i on (first one half of them, then the rest)
RECURSIVE IngestFrom(_, _, _, _, _, _, _, _)
IngestFrom(g, n, in, startOri, endOri, timeScanCur, imuPointerLast_, ring) ==
  IF n = 0 \/ g.i >= Len(in) THEN g
  ELSE IF n = 1
  THEN IngestPoint(g, in, startOri, endOri, timeScanCur, imuPointerLast_, ring)
  ELSE IngestFrom(
         IngestFrom(g, n \div 2, in, startOri, endOri, timeScanCur, imuPointerLast_, ring),
         n - n \div 2, in, startOri, endOri, timeScanCur, imuPointerLast_, ring)

\* *laserCloud += laserCloudScans[i] for i = lo .. hi
RECURSIVE Concatenate(_, _, _)
Concatenate(scans, lo, hi) ==
  IF lo = hi THEN scans[lo]
  ELSE Concatenate(scans, lo, (lo + hi) \div 2)
         \o Concatenate(scans, (lo + hi) \div 2 + 1, hi)

(***************************************************************************)
(* Reads of laserCloud->points[i].  An index outside the vector is         *)
(* undefined behaviour: the read yields whatever lies there (`garbage`).   *)
(***************************************************************************)
InCloud(cloud, i) == i >= 0 /\ i < Len(cloud)

PointAt(cloud, i, garbage) == IF InCloud(cloud, i) THEN cloud[i + 1] ELSE garbage

ArrIdx == 0 .. ArrLen - 1

(***************************************************************************)
(* Curvature pass (for i = 5 .. cloudSize-6) and the beam bounds           *)
(***************************************************************************)
CurveRange(cloudSize) == CurvatureHalfWindow .. cloudSize - CurvatureHalfWindow - 1

\* points[i-5].c + .. + points[i-1].c - 10 * points[i].c + points[i+1].c + ..
\* + points[i+5].c for the coordinate c of the points (points[j] is cloud[j+1])
WindowDiff(cloud, c, i) ==
  cloud[i - 4][c] + cloud[i - 3][c] + cloud[i - 2][c] + cloud[i - 1][c]
  + cloud[i][c] - 10 * cloud[i + 1][c] + cloud[i + 2][c] + cloud[i + 3][c]
  + cloud[i + 4][c] + cloud[i + 5][c] + cloud[i + 6][c]

\* diffX * diffX + diffY * diffY + diffZ * diffZ at index i
Curvature(cloud, i) ==
  LET diffX == WindowDiff(cloud, "x", i)
      diffY == WindowDiff(cloud, "y", i)
      diffZ == WindowDiff(cloud, "z", i)
  IN diffX * diffX + diffY * diffY + diffZ * diffZ

\* the beam-boundary branch of iteration b.i of the pass
BoundsStep(cloud, b) ==
  LET i == b.i
      sc == IntensityInt(cloud[i + 1])
  IN IF sc = b.scanCount THEN [b EXCEPT !.i = i + 1]
     ELSE IF sc > 0 /\ sc < N_SCANS
     THEN [i |-> i + 1, scanCount |-> sc,
           scanStartInd |-> [b.scanStartInd EXCEPT ![sc] = i + 5],
           scanEndInd |-> [b.scanEndInd EXCEPT ![sc - 1] = i - 5],
           entered |-> Append(b.entered, sc)]
     ELSE [b EXCEPT !.i = i + 1, !.scanCount = sc, !.entered = Append(@, sc)]

\* the next n iterations of for (int i = 5; i < cloudSize - 5; i++), from
\* i = b.i on; `entered` lists the values scanCount took, in order
RECURSIVE BoundsFrom(_, _, _, _)
BoundsFrom(cloud, cloudSize, b, n) ==
  IF n = 0 \/ b.i >= cloudSize - CurvatureHalfWindow THEN b
  ELSE IF n = 1 THEN BoundsStep(cloud, b)
  ELSE BoundsFrom(cloud, cloudSize, BoundsFrom(cloud, cloudSize, b, n \div 2), n - n \div 2)

\* the vectors after the pass and the two assignments that follow it
BeamBounds(cloud, cloudSize) ==
  LET b == BoundsFrom(cloud, cloudSize,
                      [i |-> CurvatureHalfWindow, scanCount |-> -1,
                       scanStartInd |-> [k \in Beams |-> 0],
                       scanEndInd |-> [k \in Beams |-> 0],
                       entered |-> <<>>],
                      Len(cloud))
  IN [scanStartInd |-> [b.scanStartInd EXCEPT ![0] = 5],
      scanEndInd |-> [b.scanEndInd EXCEPT ![N_SCANS - 1] = cloudSize - 5],
      entered |-> b.entered]

(***************************************************************************)
(* Occlusion and parallel-surface filter (for i = 5 .. cloudSize-7)        *)
(***************************************************************************)
FilterRange(cloudSize) == CurvatureHalfWindow .. cloudSize - 7

\* sqrt(diffX^2 + diffY^2 + diffZ^2) / depthFar < 0.1 for the nearer point
\* `near` and the farther point `far` pulled back to the depth of `near`
SteepPair(near, far) ==
  LET depthNear == Sqrt(SqNorm(near))
      depthFar == Sqrt(SqNorm(far))
      qx == near.x - Quot(far.x * depthNear, depthFar)
      qy == near.y - Quot(far.y * depthNear, depthFar)
      qz == near.z - Quot(far.z * depthNear, depthFar)
  IN OcclusionRatio * Sqrt(qx * qx + qy * qy + qz * qz) < depthNear

\* FilterMarks marking the near side of the edge in both branches
FilterMarks_NearSide(cloud, i) ==
  LET p == cloud[i + 1]
      n == cloud[i + 2]
      diff == SqDist(n, p)
      diff2 == SqDist(p, cloud[i])
      dis == SqNorm(p)
      occl == IF diff > OcclusionGap
              THEN IF SqNorm(p) > SqNorm(n)
                   THEN (IF SteepPair(n, p) THEN i - 5 .. i ELSE {})
                   ELSE (IF SteepPair(p, n) THEN i - 5 .. i ELSE {})
              ELSE {}
      outl == IF diff > dis \div OutlierRatio /\ diff2 > dis \div OutlierRatio
              THEN {i} ELSE {}
  IN occl \cup outl

\* the indices whose cloudNeighborPicked iteration i sets to 1
FilterMarks(cloud, i) ==
  LET p == cloud[i + 1]
      n == cloud[i + 2]
      diff == SqDist(n, p)
      diff2 == SqDist(p, cloud[i])
      dis == SqNorm(p)
      occl == IF diff > OcclusionGap
              THEN IF SqNorm(p) > SqNorm(n)
                   THEN (IF SteepPair(n, p) THEN i - 5 .. i ELSE {})
                   ELSE (IF SteepPair(p, n) THEN i + 1 .. i + 6 ELSE {})
              ELSE {}
      outl == IF diff > dis \div OutlierRatio /\ diff2 > dis \div OutlierRatio
              THEN {i} ELSE {}
  IN occl \cup outl

(***************************************************************************)
(* Feature selection.  `f` carries the loop variables (beam, sector, k, l, *)
(* the pick counter num and whether the loop hit its break, done), the     *)
(* scratch arrays cloudCurvature (curv), cloudSortInd (sortInd),           *)
(* cloudNeighborPicked (picked) and cloudLabel (label), the feature clouds *)
(* (as the cloud indices pushed, in order), a log of every push            *)
(* [beam, sector, kind, ind], and `oob`: whether an element outside        *)
(* laserCloud or before a scratch array was accessed, and `filtered`: the  *)
(* indices the occlusion and parallel-surface filter marked, and           *)
(* `sectors`: the [beam, sector, sp, ep] of every sector iteration.        *)
(***************************************************************************)
\* a write arr[i] = v of a scratch array; an index below 0 lands outside it
SetArr(arr, i, v) == IF i \in ArrIdx THEN [arr EXCEPT ![i] = v] ELSE arr

\* one of the two neighbour loops of the spread mask: l = step, 2*step, ..
RECURSIVE SpreadDir(_, _, _, _, _, _)
SpreadDir(f, cloud, garbage, ind, l, step) ==
  IF Abs(l) > 5 THEN f
  ELSE LET a == ind + l
           b == ind + l - step
           f1 == [f EXCEPT !.oob = @ \/ ~InCloud(cloud, a) \/ ~InCloud(cloud, b)]
       IN IF SqDist(PointAt(cloud, a, garbage), PointAt(cloud, b, garbage)) > SpreadGap
          THEN f1
          ELSE SpreadDir([f1 EXCEPT !.picked = SetArr(@, a, 1), !.oob = @ \/ a < 0],
                         cloud, garbage, ind, l + step, step)

\* cloudNeighborPicked[ind] = 1 and the two neighbour loops
MarkPicked(f, cloud, garbage, ind) ==
  SpreadDir(SpreadDir([f EXCEPT !.picked = SetArr(@, ind, 1)], cloud, garbage, ind, 1, 1),
            cloud, garbage, ind, -1, -1)

\* a push_back(laserCloud->points[ind]) onto the feature cloud `kind`
Push(f, cloud, kind, beam, sector, ind) ==
  [f EXCEPT ![kind] = Append(@, ind),
            !.log = Append(@, [beam |-> beam, sector |-> sector, kind |-> kind, ind |-> ind]),
            !.oob = @ \/ ~InCloud(cloud, ind)]

\* the test of the corner loop without its curvature threshold
CornerCandidate_AnyCurvature(f, ind) == f.picked[ind] = 0

\* the tests of the two selection loops
CornerCandidate(f, ind) == f.picked[ind] = 0 /\ f.curv[ind] > CurvatureThreshold
FlatCandidate(f, ind) == f.picked[ind] = 0 /\ f.curv[ind] < CurvatureThreshold

\* the branch with the sharp cap off by one: largestPickedNum <= 3
PickCorner_ThreeSharp(f, cloud, garbage, beam, sector, ind, largestPickedNum) ==
  IF largestPickedNum <= SharpCap + 1
  THEN MarkPicked(
         Push(Push([f EXCEPT !.label = SetArr(@, ind, 2)],
                   cloud, "cornerPointsSharp", beam, sector, ind),
              cloud, "cornerPointsLessSharp", beam, sector, ind),
         cloud, garbage, ind)
  ELSE MarkPicked(
         Push([f EXCEPT !.label = SetArr(@, ind, 1)],
              cloud, "cornerPointsLessSharp", beam, sector, ind),
         cloud, garbage, ind)

\* the branch without the push of a sharp point onto cornerPointsLessSharp
PickCorner_SharpOnly(f, cloud, garbage, beam, sector, ind, largestPickedNum) ==
  IF largestPickedNum <= SharpCap
  THEN MarkPicked(
         Push([f EXCEPT !.label = SetArr(@, ind, 2)],
              cloud, "cornerPointsSharp", beam, sector, ind),
         cloud, garbage, ind)
  ELSE MarkPicked(
         Push([f EXCEPT !.label = SetArr(@, ind, 1)],
              cloud, "cornerPointsLessSharp", beam, sector, ind),
         cloud, garbage, ind)

\* the branch of the corner loop for the largestPickedNum-th candidate
PickCorner(f, cloud, garbage, beam, sector, ind, largestPickedNum) ==
  IF largestPickedNum <= SharpCap
  THEN MarkPicked(
         Push(Push([f EXCEPT !.label = SetArr(@, ind, 2)],
                   cloud, "cornerPointsSharp", beam, sector, ind),
              cloud, "cornerPointsLessSharp", beam, sector, ind),
         cloud, garbage, ind)
  ELSE MarkPicked(
         Push([f EXCEPT !.label = SetArr(@, ind, 1)],
              cloud, "cornerPointsLessSharp", beam, sector, ind),
         cloud, garbage, ind)

\* the iteration k = f.k of the corner loop; f.num is largestPickedNum
CornerStep(f, cloud, garbage, beam, sector) ==
  LET ind == f.sortInd[f.k]
  IN IF CornerCandidate(f, ind)
     THEN IF f.num + 1 <= LessSharpCap
          THEN [PickCorner(f, cloud, garbage, beam, sector, ind, f.num + 1)
                  EXCEPT !.k = @ - 1, !.num = @ + 1]
          ELSE [f EXCEPT !.num = @ + 1, !.done = TRUE]
     ELSE [f EXCEPT !.k = @ - 1]

\* the next n iterations of for (int k = ep; k >= sp; k--), from k = f.k on
RECURSIVE CornerLoop(_, _, _, _, _, _, _)
CornerLoop(f, n, cloud, garbage, beam, sector, sp) ==
  IF n <= 0 \/ f.done \/ f.k < sp THEN f
  ELSE IF n = 1 THEN CornerStep(f, cloud, garbage, beam, sector)
  ELSE CornerLoop(CornerLoop(f, n \div 2, cloud, garbage, beam, sector, sp),
                  n - n \div 2, cloud, garbage, beam, sector, sp)

\* the body of the flat loop for a candidate: the smallestPickedNum-th pick
PickFlat(f, cloud, garbage, beam, sector, ind, smallestPickedNum) ==
  LET f1 == Push([f EXCEPT !.label = SetArr(@, ind, -1)],
                 cloud, "surfPointsFlat", beam, sector, ind)
  IN IF smallestPickedNum >= FlatCap THEN f1 ELSE MarkPicked(f1, cloud, garbage, ind)

\* the iteration k = f.k of the flat loop; f.num is smallestPickedNum
FlatStep(f, cloud, garbage, beam, sector) ==
  LET ind == f.sortInd[f.k]
  IN IF FlatCandidate(f, ind)
     THEN [PickFlat(f, cloud, garbage, beam, sector, ind, f.num + 1)
             EXCEPT !.k = @ + 1, !.num = @ + 1, !.done = f.num + 1 >= FlatCap]
     ELSE [f EXCEPT !.k = @ + 1]

\* the next n iterations of for (int k = sp; k <= ep; k++), from k = f.k on
RECURSIVE FlatLoop(_, _, _, _, _, _, _)
FlatLoop(f, n, cloud, garbage, beam, sector, ep) ==
  IF n <= 0 \/ f.done \/ f.k > ep THEN f
  ELSE IF n = 1 THEN FlatStep(f, cloud, garbage, beam, sector)
  ELSE FlatLoop(FlatLoop(f, n \div 2, cloud, garbage, beam, sector, ep),
                n - n \div 2, cloud, garbage, beam, sector, ep)

\* one iteration of the inner loop of the bubble sort, l = f.l
BubbleStep(f) ==
  LET l == f.l
  IN IF f.curv[f.sortInd[l]] < f.curv[f.sortInd[l - 1]]
     THEN [f EXCEPT !.sortInd = [@ EXCEPT ![l - 1] = f.sortInd[l], ![l] = f.sortInd[l - 1]],
                    !.l = l - 1]
     ELSE [f EXCEPT !.l = l - 1]

\* the next n iterations of for (int l = k; l >= sp + 1; l--), from l = f.l on
RECURSIVE BubbleInner(_, _, _)
BubbleInner(f, n, sp) ==
  IF n <= 0 \/ f.l < sp + 1 THEN f
  ELSE IF n = 1 THEN BubbleStep(f)
  ELSE BubbleInner(BubbleInner(f, n \div 2, sp), n - n \div 2, sp)

\* the next n iterations of for (int k = sp + 1; k <= ep; k++), from k = f.k on
RECURSIVE BubbleSort(_, _, _, _)
BubbleSort(f, n, sp, ep) ==
  IF n <= 0 \/ f.k > ep THEN f
  ELSE IF n = 1 THEN [BubbleInner([f EXCEPT !.l = f.k], f.k - sp, sp) EXCEPT !.k = @ + 1]
  ELSE BubbleSort(BubbleSort(f, n \div 2, sp, ep), n - n \div 2, sp, ep)

\* sp and ep of sector j of a beam
SectorStart(scanStartInd_, scanEndInd_, j) ==
  Quot(scanStartInd_ * (6 - j) + scanEndInd_ * j, SectorCount)

\* SectorEnd ending a sector where the next one starts
SectorEnd_Inclusive(scanStartInd_, scanEndInd_, j) ==
  Quot(scanStartInd_ * (5 - j) + scanEndInd_ * (j + 1), SectorCount)

SectorEnd(scanStartInd_, scanEndInd_, j) ==
  Quot(scanStartInd_ * (5 - j) + scanEndInd_ * (j + 1), SectorCount) - 1

\* the iteration k = f.k of: if (cloudLabel[k] <= 0) push onto lessFlatScan
LessFlatStep(f, cloud, beam, sector) ==
  IF f.label[f.k] <= 0
  THEN [Push(f, cloud, "surfPointsLessFlatScan", beam, sector, f.k) EXCEPT !.k = @ + 1]
  ELSE [f EXCEPT !.k = @ + 1]

\* the next n iterations of for (int k = sp; k <= ep; k++), from k = f.k on
RECURSIVE LessFlatLoop(_, _, _, _, _, _)
LessFlatLoop(f, n, cloud, beam, sector, ep) ==
  IF n <= 0 \/ f.k > ep THEN f
  ELSE IF n = 1 THEN LessFlatStep(f, cloud, beam, sector)
  ELSE LessFlatLoop(LessFlatLoop(f, n \div 2, cloud, beam, sector, ep),
                    n - n \div 2, cloud, beam, sector, ep)

\* the body of the sector loop, j = f.sector of beam f.beam: sort, corners,
\* flats, less-flat
SelectSector(f, cloud, garbage, bounds) ==
  LET beam == f.beam
      j == f.sector
      sp == SectorStart(bounds.scanStartInd[beam], bounds.scanEndInd[beam], j)
      ep == SectorEnd(bounds.scanStartInd[beam], bounds.scanEndInd[beam], j)
      n == ep - sp + 1
      f1 == BubbleSort([f EXCEPT !.k = sp + 1], n, sp, ep)
      f2 == CornerLoop([f1 EXCEPT !.k = ep, !.num = 0, !.done = FALSE],
                       n, cloud, garbage, beam, j, sp)
      f3 == FlatLoop([f2 EXCEPT !.k = sp, !.num = 0, !.done = FALSE],
                     n, cloud, garbage, beam, j, ep)
      f4 == LessFlatLoop([f3 EXCEPT !.k = sp], n, cloud, beam, j, ep)
  IN [(IF sp > ep THEN f ELSE f4)
        EXCEPT !.sector = @ + 1,
               !.sectors = Append(@, [beam |-> beam, sector |-> j, sp |-> sp, ep |-> ep])]

\* the next n iterations of for (int j = 0; j < 6; j++), from j = f.sector on
RECURSIVE SelectBeamFrom(_, _, _, _, _)
SelectBeamFrom(f, n, cloud, garbage, bounds) ==
  IF n <= 0 \/ f.sector >= SectorCount THEN f
  ELSE IF n = 1 THEN SelectSector(f, cloud, garbage, bounds)
  ELSE SelectBeamFrom(SelectBeamFrom(f, n \div 2, cloud, garbage, bounds),
                      n - n \div 2, cloud, garbage, bounds)

\* the next n iterations of for (int i = 0; i < N_SCANS; i++), from
\* i = f.beam on
RECURSIVE SelectFrom(_, _, _, _, _)
SelectFrom(f, n, cloud, garbage, bounds) ==
  IF n <= 0 \/ f.beam >= N_SCANS THEN f
  ELSE IF n = 1
  THEN [SelectBeamFrom([f EXCEPT !.sector = 0], SectorCount, cloud, garbage, bounds)
          EXCEPT !.beam = @ + 1]
  ELSE SelectFrom(SelectFrom(f, n \div 2, cloud, garbage, bounds),
                  n - n \div 2, cloud, garbage, bounds)

(***************************************************************************)
(* laserCloudHandler after the startup gate, as a function of the globals  *)
(* `G` it reads, the message [stamp, cloud] and the value `garbage` that   *)
(* out-of-range element reads yield.  The result holds the globals after   *)
(* the call, the locals of the call and the messages it publishes.         *)
(***************************************************************************)
\* pcl::VoxelGrid with leaf size 0.2 m, as the set of occupied leaves
downSizeFilter(points) ==
  {<<p.x \div 20, p.y \div 20, p.z \div 20>> : p \in points}

\* emission: the globals after the call, the locals of the call and the
\* messages it publishes
Emit(G, msg, startOri, endOri, g, laserCloud, bounds, f) ==
  [globals |->
     [cloudCurvature |-> f.curv, cloudSortInd |-> f.sortInd,
      cloudNeighborPicked |-> f.picked, cloudLabel |-> f.label,
      imuPointerFront |-> g.front, imuPointerLast |-> G.imuPointerLast,
      imuStart |-> g.start, imuCur |-> g.cur,
      imuShiftFromStart |-> g.shiftFromStart,
      imuVeloFromStart |-> g.veloFromStart, imu |-> G.imu],
   locals |->
     [startOri |-> startOri, endOri |-> endOri, cloudSize |-> g.count,
      laserCloudScans |-> g.scans, trace |-> g.trace, laserCloud |-> laserCloud,
      scanStartInd |-> bounds.scanStartInd, scanEndInd |-> bounds.scanEndInd,
      entered |-> bounds.entered, filtered |-> f.filtered, log |-> f.log,
      sectors |-> f.sectors],
   oob |-> f.oob,
   published |->
     [stamp |-> msg.stamp, laserCloud |-> laserCloud,
      cornerPointsSharp |-> f.cornerPointsSharp,
      cornerPointsLessSharp |-> f.cornerPointsLessSharp,
      surfPointsFlat |-> f.surfPointsFlat,
      surfPointsLessFlat |->
        [b \in Beams |->
           downSizeFilter(
             {laserCloud[e.ind + 1] :
                e \in {e \in {f.log[n] : n \in 1..Len(f.log)} :
                         e.kind = "surfPointsLessFlatScan" /\ e.beam = b}})],
      imuTrans |-> <<Vec(g.start.pitch, g.start.yaw, g.start.roll),
                     Vec(g.cur.pitch, g.cur.yaw, g.cur.roll),
                     g.shiftFromStart, g.veloFromStart>>]]

\* the selection over all beams, from the scratch arrays as the curvature
\* pass and the filter leave them; `empty` is whether points[0] and
\* points[cloudSize-1] of an empty vector were read
Select(G, msg, garbage, empty, startOri, endOri, g, laserCloud, bounds) ==
  Emit(G, msg, startOri, endOri, g, laserCloud, bounds,
       SelectFrom(
         [beam |-> 0, sector |-> 0, k |-> 0, l |-> 0, num |-> 0, done |-> FALSE,
          curv |-> [i \in ArrIdx |->
                      IF i \in CurveRange(g.count) THEN Curvature(laserCloud, i)
                      ELSE G.cloudCurvature[i]],
          sortInd |-> [i \in ArrIdx |->
                         IF i \in CurveRange(g.count) THEN i ELSE G.cloudSortInd[i]],
          filtered |-> UNION {FilterMarks(laserCloud, i) :
                                i \in FilterRange(g.count)},
          picked |-> LET marked == UNION {FilterMarks(laserCloud, i) :
                                            i \in FilterRange(g.count)}
                     IN [i \in ArrIdx |->
                           IF i \in marked THEN 1
                           ELSE IF i \in CurveRange(g.count) THEN 0
                           ELSE G.cloudNeighborPicked[i]],
          label |-> [i \in ArrIdx |->
                       IF i \in CurveRange(g.count) THEN 0 ELSE G.cloudLabel[i]],
          cornerPointsSharp |-> <<>>, cornerPointsLessSharp |-> <<>>,
          surfPointsFlat |-> <<>>, surfPointsLessFlatScan |-> <<>>,
          log |-> <<>>, sectors |-> <<>>, oob |-> empty],
         N_SCANS, laserCloud, garbage, bounds))

\* cloudSize = count, the concatenation of the beams and the curvature pass
Measure(G, msg, garbage, empty, startOri, endOri, g, laserCloud) ==
  Select(G, msg, garbage, empty, startOri, endOri, g, laserCloud,
         BeamBounds(laserCloud, g.count))

Register(G, msg, garbage, empty, startOri, endOri, g) ==
  Measure(G, msg, garbage, empty, startOri, endOri, g,
          Concatenate(g.scans, 0, N_SCANS - 1))

\* the ingestion loop over laserCloudIn, framed by startOri and endOri
Ingest(G, msg, garbage, laserCloudIn, startOri, endOri) ==
  Register(G, msg, garbage, Len(laserCloudIn) = 0, startOri, endOri,
           IngestFrom([i |-> 0, halfPassed |-> FALSE, count |-> Len(laserCloudIn),
                       scans |-> [b \in Beams |-> <<>>], trace |-> <<>>,
                       bracket |-> Bracket(G.imu, G.imuPointerFront, 0, 1),
                       front |-> G.imuPointerFront, cur |-> G.imuCur,
                       start |-> G.imuStart,
                       shiftFromStart |-> G.imuShiftFromStart,
                       veloFromStart |-> G.imuVeloFromStart],
                      Len(laserCloudIn), laserCloudIn, startOri, endOri, msg.stamp,
                      G.imuPointerLast, G.imu))

\* points[0] and points[cloudSize-1]; of an empty vector they are out of range
FirstPoint(laserCloudIn, garbage) ==
  IF Len(laserCloudIn) = 0 THEN garbage ELSE laserCloudIn[1]

LastPoint(laserCloudIn, garbage) ==
  IF Len(laserCloudIn) = 0 THEN garbage ELSE laserCloudIn[Len(laserCloudIn)]

\* startOri and endOri from the first and the last point
FrameSweep(G, msg, garbage, laserCloudIn) ==
  Ingest(G, msg, garbage, laserCloudIn, StartOri(FirstPoint(laserCloudIn, garbage)),
         NormalizeEndOri(StartOri(FirstPoint(laserCloudIn, garbage)),
                         RawEndOri(LastPoint(laserCloudIn, garbage))))

ProcessSweep(G, msg, garbage) ==
  FrameSweep(G, msg, garbage, removeNaNFromPointCloud(msg.cloud))

(***************************************************************************)
(* State                                                                   *)
(***************************************************************************)
VARIABLES
  systemInitCount, systemInited,
  cloudCurvature, cloudSortInd, cloudNeighborPicked, cloudLabel,
  imuPointerFront, imuPointerLast, imu,
  imuStart, imuCur, imuShiftFromStart, imuVeloFromStart,
  \* the environment and what an observer of the node sees
  scene,       \* what the sensor sees, sweep after sweep (fixed during a run)
  motion,      \* what the IMU may report, sample after sample (fixed during a run)
  imuRun,      \* the run of steady IMU samples that the newest slot ends
  sweepCalls,  \* calls of laserCloudHandler so far
  imuCalls,    \* calls of imuHandler so far
  crashed,     \* the process died in an out-of-range access
  pubCount,    \* calls of laserCloudHandler that published their outputs
  last         \* the latest call of laserCloudHandler: its locals and outputs

vars ==
  <<systemInitCount, systemInited, cloudCurvature, cloudSortInd,
    cloudNeighborPicked, cloudLabel, imuPointerFront, imuPointerLast, imu,
    imuStart, imuCur, imuShiftFromStart, imuVeloFromStart,
    scene, motion, imuRun, sweepCalls, imuCalls, crashed, pubCount, last>>

Globals ==
  [cloudCurvature |-> cloudCurvature, cloudSortInd |-> cloudSortInd,
   cloudNeighborPicked |-> cloudNeighborPicked, cloudLabel |-> cloudLabel,
   imuPointerFront |-> imuPointerFront, imuPointerLast |-> imuPointerLast,
   imuStart |-> imuStart, imuCur |-> imuCur,
   imuShiftFromStart |-> imuShiftFromStart,
   imuVeloFromStart |-> imuVeloFromStart, imu |-> imu]

(***************************************************************************)
(* Inputs.  The sensor looks at a wall WallDepth ahead.  A frame is what   *)
(* one sweep returns: per beam a segment [z, n, zig, y0, step] of n        *)
(* returns `step` apart from y0 on, at height z; the depth of the first    *)
(* `zig` returns alternates by ZigDepth, the rest lies flat on the wall.   *)
(* A segment may lie on the wall behind the sensor instead.  The frame is  *)
(* delivered as scanned (all beams firing at each step, or one segment     *)
(* after the other), back to front, with every return NaN, or after one    *)
(* NaN return.  A scene is the sequence of frames the sweeps see in    *)
(* turn, over and over.                                                    *)
(***************************************************************************)
MaxSweeps == 22
MaxImu == 2
WallDepth == 2000
ZigDepth == 6
Epoch == 1000
OccluderRatio == 10

Segment(z, n, zig, y0, step) ==
  [z |-> z, n |-> n, zig |-> zig, y0 |-> y0, step |-> step, behind |-> FALSE,
   near |-> 0]

\* the same segment on the wall behind the sensor
Behind(seg) == [seg EXCEPT !.behind = TRUE]

\* the same segment with an occluder in front of its first m bearings, at a
\* tenth of the range: the returns 1..m come from the occluder, and return
\* m + 1 from the wall on the bearing of return m
Occluder(seg, m) == [seg EXCEPT !.near = m]

SegPoint(seg, k) ==
  LET depth == WallDepth + (IF k <= seg.zig /\ k % 2 = 1 THEN ZigDepth ELSE 0)
      bearing == IF seg.near > 0 /\ k > seg.near THEN k - 1 ELSE k
      y == seg.y0 - seg.step * (bearing - 1)
  IN IF seg.behind THEN RawPoint(-depth, -y, seg.z)
     ELSE IF k <= seg.near
          THEN RawPoint(depth \div OccluderRatio, y \div OccluderRatio,
                        seg.z \div OccluderRatio)
          ELSE RawPoint(depth, y, seg.z)

MaxN(segs) ==
  IF Len(segs) = 0 THEN 0
  ELSE CHOOSE m \in {segs[i].n : i \in 1..Len(segs)} :
         \A i \in 1..Len(segs) : segs[i].n <= m

\* the sensor fires all beams at each azimuth step: the returns in the order
\* (step 1, beam 1), (step 1, beam 2), .., (step 2, beam 1), ..
Columns(segs) ==
  LET L == Len(segs)
      all == [m \in 1..MaxN(segs) * L |-> <<((m - 1) \div L) + 1, ((m - 1) % L) + 1>>]
      fired == SelectSeq(all, LAMBDA e : e[1] <= segs[e[2]].n)
  IN [m \in 1..Len(fired) |-> SegPoint(segs[fired[m][2]], fired[m][1])]

\* the returns of one segment after the other
RECURSIVE InTurn(_)
InTurn(segs) ==
  IF Len(segs) = 0 THEN <<>> ELSE Columns(<<Head(segs)>>) \o InTurn(Tail(segs))

Reverse(sq) == [i \in 1..Len(sq) |-> sq[Len(sq) + 1 - i]]

Frame(segs, v) == [segs |-> segs, v |-> v]

\* the point cloud of a frame
SweepCloud(frame) ==
  LET full == Columns(frame.segs)
  IN CASE frame.v = "full" -> full
       [] frame.v = "inTurn" -> InTurn(frame.segs)
       [] frame.v = "reversed" -> Reverse(full)
       [] frame.v = "allNaN" -> [i \in 1..Len(full) |-> NaNPoint]
       [] frame.v = "nanFirst" -> <<NaNPoint>> \o full

\* the frame the call-th sweep sees
FrameOf(sc, call) == sc[((call - 1) % Len(sc)) + 1]

\* what an out-of-range read may find: zeroed memory, or something that
\* looks like a point of the wall
GarbagePoints ==
  {[x |-> 0, y |-> 0, z |-> 0, inum |-> 0, iden |-> 1],
   [x |-> WallDepth, y |-> 0, z |-> 0, inum |-> 0, iden |-> 1]}

ZeroArr == [i \in ArrIdx |-> 0]

NoCall == [call |-> 0, ran |-> FALSE, oob |-> FALSE, published |-> FALSE]

(***************************************************************************)
(* The callbacks                                                           *)
(***************************************************************************)
\* the startup gate: if (!systemInited) { ...; return; }
Gate ==
  /\ ~systemInited
  /\ systemInitCount' = systemInitCount + 1
  /\ systemInited' = (systemInitCount + 1 >= systemDelay)
  /\ last' = [call |-> sweepCalls + 1, ran |-> FALSE, oob |-> FALSE, published |-> FALSE]
  /\ UNCHANGED <<cloudCurvature, cloudSortInd, cloudNeighborPicked, cloudLabel,
                 imuPointerFront, imuStart, imuCur, imuShiftFromStart,
                 imuVeloFromStart, crashed, pubCount>>

\* the handler from the gate to the end with the result r of the sweep;
\* `dies` is whether an out-of-range access killed the process
Finish(r, dies) ==
  /\ UNCHANGED <<systemInitCount, systemInited>>
  /\ cloudCurvature' = r.globals.cloudCurvature
  /\ cloudSortInd' = r.globals.cloudSortInd
  /\ cloudNeighborPicked' = r.globals.cloudNeighborPicked
  /\ cloudLabel' = r.globals.cloudLabel
  /\ imuPointerFront' = r.globals.imuPointerFront
  /\ imuStart' = r.globals.imuStart
  /\ imuCur' = r.globals.imuCur
  /\ imuShiftFromStart' = r.globals.imuShiftFromStart
  /\ imuVeloFromStart' = r.globals.imuVeloFromStart
  /\ crashed' = dies
  /\ pubCount' = IF dies THEN pubCount ELSE pubCount + 1
  /\ last' = [call |-> sweepCalls + 1, ran |-> TRUE, oob |-> r.oob,
              published |-> ~dies, locals |-> r.locals, out |-> r.published]

\* the rest of the handler.  An access outside the cloud is undefined: the
\* read yields any value and the process may or may not die of it
Outcome(r) ==
  \E dies \in BOOLEAN : (dies => r.oob) /\ Finish(r, dies)

Pipeline(msg) ==
  /\ systemInited
  /\ \E garbage \in GarbagePoints : Outcome(ProcessSweep(Globals, msg, garbage))

\* the message of the next sweep: the sensor sweeps once every scanPeriod
NextMessage ==
  [stamp |-> Epoch + scanPeriod * sweepCalls,
   cloud |-> SweepCloud(FrameOf(scene, sweepCalls + 1))]

laserCloudHandler ==
  /\ ~crashed
  /\ sweepCalls < MaxSweeps
  /\ sweepCalls' = sweepCalls + 1
  /\ UNCHANGED <<imuPointerLast, imu, scene, motion, imuRun, imuCalls>>
  /\ \/ Gate
     \/ Pipeline(NextMessage)

\* a sample of the IMU: the time since its previous sample (for the first
\* one, since FirstStamp), the orientation and the linear acceleration
ImuSample(gap, roll, pitch, yaw, lin) ==
  [gap |-> gap, roll |-> roll, pitch |-> pitch, yaw |-> yaw, lin |-> lin]

\* what the IMU reports: accelerating forward at 1 m/s^2, 30 ms after its
\* previous sample, or at rest, 120 ms after it
ImuSamples ==
  {ImuSample(3, 0, 0, 0, Vec(100, 0, Gravity)), ImuSample(12, 0, 0, 0, Vec(0, 0, Gravity))}

\* the stamp of the first sweep past the startup gate
FirstStamp == Epoch + scanPeriod * systemDelay

NoRun == [live |-> FALSE, n |-> 0, dt |-> 0, acc |-> Vec(0, 0, 0)]

\* what an observer of the ring notes when slot `slot` has been written,
\* timeDiff after the sample before it: the run of n samples of identity
\* orientation, the same acceleration and the same spacing dt < scanPeriod
\* that followed a slot of zero velocity and shift goes on, or a new run
\* starts at this slot, or there is no such run
ObserveRun(run, ring, slot, timeDiff) ==
  LET cur == ring[slot]
      steady == /\ run.live
                /\ cur.roll = 0 /\ cur.pitch = 0 /\ cur.yaw = 0
                /\ timeDiff < scanPeriod
                /\ run.n > 0 => (cur.acc = run.acc /\ timeDiff = run.dt)
  IN IF steady THEN [live |-> TRUE, n |-> run.n + 1, dt |-> timeDiff, acc |-> cur.acc]
     ELSE IF cur.velo = Vec(0, 0, 0) /\ cur.shift = Vec(0, 0, 0)
     THEN [NoRun EXCEPT !.live = TRUE]
     ELSE NoRun

\* imuHandler on the IMU state st = [imuPointerLast, imu, imuRun]
ImuStep(st, sample) ==
  LET slot == (st.imuPointerLast + 1) % imuQueLength
      before == IF st.imuPointerLast < 0 THEN FirstStamp
                ELSE st.imu[st.imuPointerLast].time
      ring == StoreImu(st.imu, slot,
                       [time |-> before + sample.gap, roll |-> sample.roll,
                        pitch |-> sample.pitch, yaw |-> sample.yaw, lin |-> sample.lin])
  IN [imuPointerLast |-> slot, imu |-> ring,
      imuRun |-> ObserveRun(st.imuRun, ring, slot,
                            ring[slot].time
                              - ring[(slot + imuQueLength - 1) % imuQueLength].time)]

imuHandler ==
  /\ ~crashed
  /\ imuCalls < Len(motion)
  /\ imuCalls' = imuCalls + 1
  /\ \E sample \in motion[imuCalls + 1] :
       LET st == ImuStep([imuPointerLast |-> imuPointerLast, imu |-> imu,
                          imuRun |-> imuRun], sample)
       IN /\ imuPointerLast' = st.imuPointerLast
          /\ imu' = st.imu
          /\ imuRun' = st.imuRun
  /\ UNCHANGED <<systemInitCount, systemInited, cloudCurvature, cloudSortInd,
                 cloudNeighborPicked, cloudLabel, imuPointerFront, imuStart, imuCur,
                 imuShiftFromStart, imuVeloFromStart, scene, motion, sweepCalls,
                 crashed, pubCount, last>>

Next == laserCloudHandler \/ imuHandler

\* the state after construction (the initialisers of the globals)
Boot ==
  /\ systemInitCount = 0
  /\ systemInited = FALSE
  /\ cloudCurvature = ZeroArr
  /\ cloudSortInd = ZeroArr
  /\ cloudNeighborPicked = ZeroArr
  /\ cloudLabel = ZeroArr
  /\ imuPointerFront = 0
  /\ imuPointerLast = -1
  /\ imu = [i \in ImuSlots |-> EmptySlot]
  /\ imuStart = ZeroImuState
  /\ imuCur = ZeroImuState
  /\ imuShiftFromStart = Vec(0, 0, 0)
  /\ imuVeloFromStart = Vec(0, 0, 0)
  /\ imuRun = NoRun
  /\ sweepCalls = 0
  /\ imuCalls = 0
  /\ crashed = FALSE
  /\ pubCount = 0
  /\ last = NoCall

\* beams 14 (flat) and 15 (ridged), the returns close enough for the spread mask
Healthy == <<Segment(-40, 23, 0, 220, 20), Segment(0, 23, 23, 220, 20)>>

BootScenes ==
  {<<Frame(Healthy, "full")>>,
   <<Frame(<<>>, "full")>>,
   <<Frame(Healthy, "allNaN")>>,
   <<Frame(<<Segment(700, 3, 0, 20, 20)>>, "full")>>,
   <<Frame(<<Segment(40, 10, 0, 100, 20)>>, "full")>>,
   <<Frame(Healthy, "nanFirst"), Frame(<<>>, "full")>>}

\* any of ImuSamples at each of the MaxImu callbacks of the IMU
AnyMotion == [k \in 1..MaxImu |-> ImuSamples]

Init == Boot /\ scene \in BootScenes /\ motion = AnyMotion

Spec == Init /\ [][Next]_vars

(***************************************************************************)
(* The node as the startup gate opens: the state after systemDelay - 1     *)
(* sweep callbacks, with richer scenes.                                    *)
(***************************************************************************)
\* beam 15 alone: two thirds of it ridged, the rest flat
Mixed == <<Segment(0, 142, 96, 1775, 25)>>
\* beams 1 and 2 seen, beam 15 (and every other) not; both flat
FlatBroad == <<Segment(40, 159, 0, 1975, 25), Segment(78, 6, 0, 1975, 25)>>
\* beams 1 and 3 seen, beam 2 in between not
Gapped == <<Segment(40, 12, 0, 140, 25), Segment(110, 12, 0, 140, 25)>>
\* a wide wall: the azimuth of the returns spans a quarter turn
Wide == <<Segment(-40, 12, 0, 2200, 400), Segment(0, 12, 0, 2200, 400)>>
\* beam 15 alone, its first 8 bearings hidden by an occluder at 2 m
Occluded == <<Occluder(Segment(0, 20, 0, 220, 20), 8)>>
\* a sweep that starts straight behind and ends 225 degrees later, with
\* three returns from 350 degrees after the start in between
Overrun ==
  <<Behind(Segment(0, 1, 0, 0, 20)), Segment(0, 5, 0, 80 - WallDepth, 20),
    Behind(Segment(0, 3, 0, 350, 20)), Segment(0, 4, 0, 60 - WallDepth, 20)>>
\* beam 15 alone: six returns from straight ahead, then ten from 45 degrees
\* before the start of the sweep
Backward == <<Segment(0, 6, 0, 0, 20), Segment(0, 10, 0, WallDepth, 20)>>
\* half a turn: from straight ahead to straight behind
Around == <<Segment(0, 6, 0, 0, 20), Behind(Segment(0, 6, 0, 100, 20))>>

SweepScenes ==
  {<<Frame(Healthy, "full")>>,
   <<Frame(Mixed, "full")>>,
   <<Frame(FlatBroad, "full")>>,
   <<Frame(Gapped, "full")>>,
   <<Frame(Wide, "full")>>,
   <<Frame(Wide, "reversed")>>,
   <<Frame(Around, "inTurn")>>,
   <<Frame(Occluded, "full")>>,
   <<Frame(Overrun, "inTurn")>>,
   <<Frame(Backward, "inTurn")>>,
   <<Frame(Mixed, "full"), Frame(Gapped, "nanFirst")>>}

InitSweep ==
  /\ systemInitCount = systemDelay - 1
  /\ systemInited = FALSE
  /\ cloudCurvature = ZeroArr
  /\ cloudSortInd = ZeroArr
  /\ cloudNeighborPicked = ZeroArr
  /\ cloudLabel = ZeroArr
  /\ imuPointerFront = 0
  /\ imuPointerLast = -1
  /\ imu = [i \in ImuSlots |-> EmptySlot]
  /\ imuStart = ZeroImuState
  /\ imuCur = ZeroImuState
  /\ imuShiftFromStart = Vec(0, 0, 0)
  /\ imuVeloFromStart = Vec(0, 0, 0)
  /\ imuRun = NoRun
  /\ motion = AnyMotion
  /\ sweepCalls = systemDelay - 1
  /\ imuCalls = 0
  /\ crashed = FALSE
  /\ pubCount = 0
  /\ last = [call |-> systemDelay - 1, ran |-> FALSE, oob |-> FALSE, published |-> FALSE]
  /\ scene \in SweepScenes

SpecSweep == InitSweep /\ [][Next]_vars

(***************************************************************************)
(* The node with its IMU running: short sweeps, and scripts of IMU samples *)
(* of which the first `played` have already been delivered.                *)
(***************************************************************************)
\* beam 15 alone, 12 returns
Short == <<Segment(0, 12, 0, 220, 20)>>
\* the same after one return from above the field of view
Blinded == <<Segment(700, 1, 0, 220, 20), Segment(0, 12, 0, 220, 20)>>

\* n samples dt apart of identity orientation and the same acceleration,
\* the first one gap0 after FirstStamp
Steady(n, gap0, dt, lin) ==
  [k \in 1..n |-> {ImuSample(IF k = 1 THEN gap0 ELSE dt, 0, 0, 0, lin)}]

\* more than a lap of the ring at 3 cm/s^2 forward, a stall of 120 ms, and on
LongMarch ==
  Steady(imuQueLength + 3, -605, 3, Vec(3, 0, Gravity))
    \o <<{ImuSample(12, 0, 0, 0, Vec(3, 0, Gravity))}>>
    \o <<{ImuSample(3, 0, 0, 0, Vec(3, 0, Gravity))}>>

\* at rest, turned a quarter turn about the vertical axis
Turned(gap0) ==
  [k \in 1..3 |-> {ImuSample(IF k = 1 THEN gap0 ELSE 3, 0, 0, 2, Vec(0, 0, Gravity))}]

ImuScenarios ==
  {[scene |-> <<Frame(Short, "full")>>, motion |-> LongMarch, played |-> imuQueLength - 1],
   [scene |-> <<Frame(Short, "full"), Frame(Blinded, "inTurn")>>,
    motion |-> Turned(-30), played |-> 0],
   [scene |-> <<Frame(Blinded, "inTurn")>>, motion |-> Turned(-30), played |-> 0],
   [scene |-> <<Frame(Short, "full")>>, motion |-> Turned(3), played |-> 0],
   [scene |-> <<Frame(Blinded, "inTurn")>>,
    motion |-> Steady(3, -30, 3, Vec(100, 0, Gravity)), played |-> 0],
   [scene |-> <<Frame(Short, "full")>>,
    motion |-> Steady(3, 3, 3, Vec(100, 0, Gravity)), played |-> 0]}

\* the IMU state after the callbacks for samples lo .. hi of a script (the
\* test on st has it computed before the samples that follow are applied)
RECURSIVE Replay(_, _, _, _)
Replay(st, script, lo, hi) ==
  IF lo > hi \/ st.imuPointerLast >= imuQueLength THEN st
  ELSE IF lo = hi THEN ImuStep(st, CHOOSE sample \in script[lo] : TRUE)
  ELSE Replay(Replay(st, script, lo, (lo + hi) \div 2), script, (lo + hi) \div 2 + 1, hi)

\* the IMU state of the node after the first `played` samples of a script
Played(script, played) ==
  Replay([imuPointerLast |-> -1, imu |-> [i \in ImuSlots |-> EmptySlot],
          imuRun |-> NoRun], script, 1, played)

InitImu ==
  /\ systemInitCount = systemDelay - 1
  /\ systemInited = FALSE
  /\ cloudCurvature = ZeroArr
  /\ cloudSortInd = ZeroArr
  /\ cloudNeighborPicked = ZeroArr
  /\ cloudLabel = ZeroArr
  /\ imuPointerFront = 0
  /\ imuStart = ZeroImuState
  /\ imuCur = ZeroImuState
  /\ imuShiftFromStart = Vec(0, 0, 0)
  /\ imuVeloFromStart = Vec(0, 0, 0)
  /\ sweepCalls = systemDelay - 1
  /\ crashed = FALSE
  /\ pubCount = 0
  /\ last = [call |-> systemDelay - 1, ran |-> FALSE, oob |-> FALSE, published |-> FALSE]
  /\ \E sc \in ImuScenarios :
       /\ scene = sc.scene
       /\ motion = sc.motion
       /\ imuCalls = sc.played
       /\ imuPointerLast = Played(sc.motion, sc.played).imuPointerLast
       /\ imu = Played(sc.motion, sc.played).imu
       /\ imuRun = Played(sc.motion, sc.played).imuRun

SpecImu == InitImu /\ [][Next]_vars

(***************************************************************************)
(* What an observer reads off the latest sweep callback                    *)
(***************************************************************************)
Sectors == 0..(SectorCount - 1)

\* the pushes of the latest sweep onto the feature cloud `kind`, in order
Pushes(kind) == SelectSeq(last.locals.log, LAMBDA e : e.kind = kind)

\* the cloud indices selected as corners and as flats in the latest sweep
CornerIndices ==
  LET log == Pushes("cornerPointsLessSharp") \o Pushes("cornerPointsSharp")
  IN {log[n].ind : n \in 1..Len(log)}

FlatIndices ==
  LET log == Pushes("surfPointsFlat")
  IN {log[n].ind : n \in 1..Len(log)}

\* the beams that received a kept point in the latest sweep
Populated == {b \in Beams : Len(last.locals.laserCloudScans[b]) > 0}

(***************************************************************************)
(* C1.  Startup gate: each of the first 20 calls of laserCloudHandler      *)
(* returns without publishing anything; the 21st call and every later one  *)
(* runs the whole pipeline and publishes every output; IMU callbacks in    *)
(* between do not change the count.                                        *)
(***************************************************************************)
C1_StartupGate ==
  /\ (1 <= last.call /\ last.call <= systemDelay) => (~last.ran /\ ~last.published)
  /\ last.call > systemDelay => (last.ran /\ last.published)
  /\ pubCount = IF sweepCalls > systemDelay THEN sweepCalls - systemDelay ELSE 0

(***************************************************************************)
(* C2.  No error is fatal: every sweep received after the startup gate,    *)
(* whatever its content, reaches emission and publishes its outputs        *)
(* without reading any element outside the input cloud.                    *)
(***************************************************************************)
C2_NoErrorIsFatal ==
  last.ran => (last.published /\ ~last.oob)

(***************************************************************************)
(* C3.  Intensity round trip: for every point kept by ingestion the        *)
(* integer part of its intensity lies in [0, N_SCANS-1] and equals the id  *)
(* of the beam container laserCloudScans[scanID] it was pushed into.       *)
(***************************************************************************)
C3_IntensityRoundTrip ==
  last.ran =>
    \A b \in Beams :
      \A n \in 1..Len(last.locals.laserCloudScans[b]) :
        /\ IntensityInt(last.locals.laserCloudScans[b][n]) \in 0..(N_SCANS - 1)
        /\ IntensityInt(last.locals.laserCloudScans[b][n]) = b

(***************************************************************************)
(* C4.  Beam bounds: after the curvature pass of a processed sweep, every  *)
(* beam i has scanStartInd[i] >= 5 and scanEndInd[i] <= cloudSize - 5,     *)
(* however the kept points are spread over the beams.                      *)
(***************************************************************************)
C4_BeamBounds ==
  last.ran =>
    \A b \in Beams :
      /\ last.locals.scanStartInd[b] >= CurvatureHalfWindow
      /\ last.locals.scanEndInd[b] <= last.locals.cloudSize - CurvatureHalfWindow

(***************************************************************************)
(* C5.  Empty beams: a beam that received no kept point in a sweep has     *)
(* six empty sectors (sp > ep) in its selection iteration, which adds no   *)
(* point to any of the four feature sets.                                  *)
(***************************************************************************)
C5_EmptyBeamAddsNothing ==
  last.ran =>
    \A b \in Beams \ Populated :
      /\ \A j \in Sectors :
           SectorStart(last.locals.scanStartInd[b], last.locals.scanEndInd[b], j)
             > SectorEnd(last.locals.scanStartInd[b], last.locals.scanEndInd[b], j)
      /\ \A n \in 1..Len(last.locals.log) : last.locals.log[n].beam # b

(***************************************************************************)
(* C6.  Sector caps: in every processed sweep each sector adds at most 2   *)
(* points to cornerPointsSharp, 20 to cornerPointsLessSharp and 4 to       *)
(* surfPointsFlat; so each beam adds at most 12, 120 and 24, and the       *)
(* published clouds hold at most 2*6*N_SCANS, 20*6*N_SCANS and             *)
(* 4*6*N_SCANS points.                                                     *)
(***************************************************************************)
\* how many entries of the sequence of pushes `log` sector j of beam b made
InSector(log, b, j) ==
  Cardinality({n \in 1..Len(log) : log[n].beam = b /\ log[n].sector = j})

InBeam(log, b) == Cardinality({n \in 1..Len(log) : log[n].beam = b})

C6_SectorCaps ==
  last.ran =>
    LET sharp == Pushes("cornerPointsSharp")
        lessSharp == Pushes("cornerPointsLessSharp")
        flat == Pushes("surfPointsFlat")
    IN /\ \A b \in Beams, j \in Sectors :
            /\ InSector(sharp, b, j) <= SharpCap
            /\ InSector(lessSharp, b, j) <= LessSharpCap
            /\ InSector(flat, b, j) <= FlatCap
       /\ \A b \in Beams :
            /\ InBeam(sharp, b) <= SharpCap * SectorCount
            /\ InBeam(lessSharp, b) <= LessSharpCap * SectorCount
            /\ InBeam(flat, b) <= FlatCap * SectorCount
       /\ Len(last.out.cornerPointsSharp) <= SharpCap * SectorCount * N_SCANS
       /\ Len(last.out.cornerPointsLessSharp) <= LessSharpCap * SectorCount * N_SCANS
       /\ Len(last.out.surfPointsFlat) <= FlatCap * SectorCount * N_SCANS

\* a sweep with a sector that fills both corner caps and a sector that
\* fills the flat cap
C6_CapsReached ==
  /\ last.ran
  /\ \E b \in Beams, j \in Sectors :
       /\ InSector(Pushes("cornerPointsSharp"), b, j) = SharpCap
       /\ InSector(Pushes("cornerPointsLessSharp"), b, j) = LessSharpCap
  /\ \E b \in Beams, j \in Sectors :
       InSector(Pushes("surfPointsFlat"), b, j) = FlatCap

(***************************************************************************)
(* C7.  Sharp within less-sharp: after every iteration of the selection    *)
(* loop and at emission, cornerPointsLessSharp holds every point of        *)
(* cornerPointsSharp at least as often as cornerPointsSharp does.          *)
(***************************************************************************)
\* how often the index `ind` is among the first n entries of `log` as `kind`
Times(log, kind, ind, n) ==
  Cardinality({m \in 1..n : log[m].kind = kind /\ log[m].ind = ind})

\* how often the index `ind` is in the published cloud `out`
Held(out, ind) == Cardinality({m \in 1..Len(out) : out[m] = ind})

C7_SharpWithinLessSharp ==
  last.ran =>
    LET log == SelectSeq(last.locals.log,
                         LAMBDA e : e.kind \in {"cornerPointsSharp", "cornerPointsLessSharp"})
    IN \* the pushes of one iteration are complete when the next push is not
       \* the less-sharp push that follows a sharp one
       /\ \A n \in 1..Len(log) :
            log[n].kind # "cornerPointsSharp" =>
              \A m \in 1..n :
                log[m].kind = "cornerPointsSharp" =>
                  Times(log, "cornerPointsSharp", log[m].ind, n)
                    <= Times(log, "cornerPointsLessSharp", log[m].ind, n)
       /\ \A m \in 1..Len(last.out.cornerPointsSharp) :
            Held(last.out.cornerPointsSharp, last.out.cornerPointsSharp[m])
              <= Held(last.out.cornerPointsLessSharp, last.out.cornerPointsSharp[m])

\* a sweep that selected sharp corners and less-sharp ones besides
C7_SharpSelected ==
  /\ last.ran
  /\ Len(last.out.cornerPointsSharp) > 0
  /\ Len(last.out.cornerPointsLessSharp) > Len(last.out.cornerPointsSharp)

(***************************************************************************)
(* C8.  Disjoint labels: within one sweep no cloud index is selected both  *)
(* as a corner (pushed onto cornerPointsSharp or cornerPointsLessSharp)    *)
(* and as a flat (pushed onto surfPointsFlat).                             *)
(***************************************************************************)
C8_DisjointLabels ==
  last.ran => CornerIndices \cap FlatIndices = {}

\* a sweep that selected corners and flats, with a flat index that a later
\* beam's iteration met again
C8_CornersAndFlats ==
  /\ last.ran
  /\ CornerIndices # {}
  /\ Cardinality(FlatIndices) < Len(Pushes("surfPointsFlat"))

(***************************************************************************)
(* C9.  Selected features are marked: every index selected as a feature    *)
(* gets cloudNeighborPicked = 1 with that selection, the pick that reaches *)
(* the cap of its sector included; so at the end of a sweep every index    *)
(* whose label is 2, 1 or -1 has cloudNeighborPicked = 1.                  *)
(***************************************************************************)
C9_SelectedAreMarked ==
  last.ran =>
    /\ \A i \in (CornerIndices \cup FlatIndices) \cap ArrIdx : cloudNeighborPicked[i] = 1
    /\ \A i \in ArrIdx : cloudLabel[i] \in {2, 1, -1} => cloudNeighborPicked[i] = 1

(***************************************************************************)
(* C10.  Azimuth normalisation: after the single correction step,          *)
(* pi < endOri - startOri < 3*pi.                                          *)
(***************************************************************************)
C10_AzimuthNormalized ==
  last.ran =>
    /\ M_PI < last.locals.endOri - last.locals.startOri
    /\ last.locals.endOri - last.locals.startOri < 3 * M_PI

(***************************************************************************)
(* C11.  IMU integration consistency: after n >= 1 consecutive samples of  *)
(* identity orientation, the same world acceleration a and the same        *)
(* spacing dt < scanPeriod that followed a slot of zero velocity and       *)
(* shift, the newest slot holds v = a*n*dt and s = a*(n*dt)^2 / 2, also    *)
(* when n exceeds the capacity of the ring.  (The shift of the model is in *)
(* units of acc*time^2 / 2, so that s reads a*(n*dt)^2.)                   *)
(***************************************************************************)
C11_IntegrationConsistency ==
  (imuRun.live /\ imuRun.n >= 1) =>
    LET T == imuRun.n * imuRun.dt
        a == imuRun.acc
    IN /\ imu[imuPointerLast].velo = Vec(a.x * T, a.y * T, a.z * T)
       /\ imu[imuPointerLast].shift = Vec(a.x * T * T, a.y * T * T, a.z * T * T)

\* a run under acceleration longer than the ring
C11_RunPastTheRing ==
  /\ imuRun.live
  /\ imuRun.n > imuQueLength
  /\ imuRun.acc # Vec(0, 0, 0)
  /\ imuCalls > imuQueLength

(***************************************************************************)
(* C12.  IMU gap reset: after an IMU callback whose sample came scanPeriod *)
(* or more after the sample before it, integration was skipped and the     *)
(* slot just written holds velocity 0 and shift 0, also when the slot was  *)
(* used on an earlier lap of the ring.                                     *)
(***************************************************************************)
C12_GapResetsToRest ==
  (/\ imuPointerLast >= 0
   /\ imu[imuPointerLast].time
        - imu[(imuPointerLast + imuQueLength - 1) % imuQueLength].time >= scanPeriod)
  => (/\ imu[imuPointerLast].velo = Vec(0, 0, 0)
      /\ imu[imuPointerLast].shift = Vec(0, 0, 0))

(***************************************************************************)
(* C13.  No cross-sweep state: what a processed sweep publishes (the       *)
(* de-skewed cloud, the four feature clouds and imuTrans) is a function of *)
(* its message, the IMU ring and the front cursor only: it is what the     *)
(* same call publishes on a node that agrees on these and has processed    *)
(* no sweep before.                                                        *)
(***************************************************************************)
FreshGlobals ==
  [Globals EXCEPT !.cloudCurvature = ZeroArr, !.cloudSortInd = ZeroArr,
                  !.cloudNeighborPicked = ZeroArr, !.cloudLabel = ZeroArr,
                  !.imuStart = ZeroImuState, !.imuCur = ZeroImuState,
                  !.imuShiftFromStart = Vec(0, 0, 0),
                  !.imuVeloFromStart = Vec(0, 0, 0)]

C13_NoCrossSweepState ==
  [][(sweepCalls' = sweepCalls + 1 /\ last'.ran) =>
       \E garbage \in GarbagePoints :
         last'.out = ProcessSweep(FreshGlobals, NextMessage, garbage).published]_vars

(***************************************************************************)
(* C14.  No-motion identity: if every IMU sample received so far reports   *)
(* the same orientation and zero velocity and acceleration, then for every *)
(* kept point of a processed sweep that had an IMU sample to read, the     *)
(* IMU state computed for the point equals the start state it is de-skewed *)
(* against, and de-skew leaves the coordinates of the point unchanged      *)
(* (up to rounding).                                                       *)
(***************************************************************************)
\* the slots written so far (every stamp of the IMU is positive, a slot
\* never written holds the stamp 0)
Written == {k \in ImuSlots : imu[k].time # 0}

AtRest ==
  /\ imuPointerLast >= 0
  /\ \A k \in Written :
       /\ imu[k].roll = imu[imuPointerLast].roll
       /\ imu[k].pitch = imu[imuPointerLast].pitch
       /\ imu[k].yaw = imu[imuPointerLast].yaw
       /\ imu[k].acc = Vec(0, 0, 0)
       /\ imu[k].velo = Vec(0, 0, 0)
       /\ imu[k].shift = Vec(0, 0, 0)

\* equal up to the rounding of the model's rotations (2% of the size of p)
Unmoved(p, q) ==
  LET slack == (Abs(p.x) + Abs(p.y) + Abs(p.z)) \div 50 + 2
  IN Abs(p.x - q.x) <= slack /\ Abs(p.y - q.y) <= slack /\ Abs(p.z - q.z) <= slack

C14_NoMotionIdentity ==
  (last.ran /\ AtRest) =>
    \A n \in 1..Len(last.locals.trace) :
      LET t == last.locals.trace[n]
      IN t.imu => (t.cur = t.start /\ Unmoved(t.point, t.placed))

(***************************************************************************)
(* C15. Occlusion edge masking.  For two consecutive cloud indices i and   *)
(* i + 1 on the same bearing whose squared distance exceeds 0.1, the point *)
(* i at the near depth and the point i + 1 at the far depth, the filter    *)
(* sets picked = 1 on the far point and the 5 points that follow it        *)
(* (i + 1 .. i + 6).                                                       *)
(***************************************************************************)
SameBearing(p, q) ==
  /\ p.y * q.z - p.z * q.y = 0
  /\ p.z * q.x - p.x * q.z = 0
  /\ p.x * q.y - p.y * q.x = 0
  /\ p.x * q.x + p.y * q.y + p.z * q.z > 0

\* the cloud indices i of a near point whose successor is a far point on the
\* same bearing, among those the filter visits
OcclusionEdges ==
  {i \in FilterRange(last.locals.cloudSize) :
     LET p == last.locals.laserCloud[i + 1]
         n == last.locals.laserCloud[i + 2]
     IN SameBearing(p, n) /\ SqDist(n, p) > OcclusionGap /\ SqNorm(p) < SqNorm(n)}

C15_FarSideMasked ==
  last.ran => \A i \in OcclusionEdges : i + 1 .. i + 6 \subseteq last.locals.filtered

C15_EdgeSeen ==
  /\ last.ran
  /\ \E i \in OcclusionEdges :
       /\ 10 * SqNorm(last.locals.laserCloud[i + 1]) < SqNorm(last.locals.laserCloud[i + 2])
       /\ i + 1 .. i + 6 \subseteq last.locals.filtered
       /\ i - 1 \notin last.locals.filtered

\* the claim as stated: the 5 points that precede the near point are marked
C15_NearSideMasked ==
  last.ran => \A i \in OcclusionEdges : i - 5 .. i - 1 \subseteq last.locals.filtered

(***************************************************************************)
(* C16. First-point latch.  In every processed sweep with at least one IMU *)
(* sample in the ring, the start state (roll, pitch, yaw, velocity, shift) *)
(* that every point of the sweep is de-skewed against, and that the sweep  *)
(* publishes, is the IMU state computed for the first kept point of that   *)
(* sweep, also when the first raw point of the cloud is dropped.           *)
(***************************************************************************)
C16_FirstPointLatch ==
  (last.ran /\ Len(last.locals.trace) > 0 /\ last.locals.trace[1].imu) =>
    /\ \A n \in 1..Len(last.locals.trace) :
         last.locals.trace[n].start = last.locals.trace[1].cur
    /\ imuStart = last.locals.trace[1].cur

(***************************************************************************)
(* C17. Sector partition.  For every beam s with                           *)
(* scanStartInd[s] <= scanEndInd[s], the six index ranges [sp_j, ep_j]     *)
(* (j = 0..5) are pairwise disjoint, contiguous (sp_{j+1} = ep_j + 1) and  *)
(* their union is exactly the range [scanStartInd[s], scanEndInd[s] - 1]:  *)
(* it ends one index before scanEndInd[s].  Every index of that range that *)
(* lies in the cloud is examined for less-flat membership.                 *)
(***************************************************************************)
\* the range [sp, ep] the latest sweep used for sector j of beam b
SectorOf(b, j) ==
  LET sq == last.locals.sectors
  IN sq[CHOOSE n \in 1..Len(sq) : sq[n].beam = b /\ sq[n].sector = j]

SectorRange(b, j) == SectorOf(b, j).sp .. SectorOf(b, j).ep

Ordered == {b \in Beams : last.locals.scanStartInd[b] <= last.locals.scanEndInd[b]}

C18_RelTimeRange ==
  last.ran =>
    \A n \in 1..Len(last.locals.trace) :
      LET t == last.locals.trace[n]
          fromStart == t.relNum
          fromEnd == t.relNum + last.locals.startOri - last.locals.endOri
      IN /\ ~t.halfPassed => (-M_PI <= 2 * fromStart /\ 2 * fromStart <= 3 * M_PI)
         /\ t.halfPassed => (-3 * M_PI <= 2 * fromEnd /\ 2 * fromEnd <= M_PI)
         /\ -t.relDen <= 2 * t.relNum /\ 2 * t.relNum <= 3 * t.relDen

(***************************************************************************)
(* C19. Interpolation bracket.  Whenever the de-skew of a point takes the  *)
(* interpolation branch, slot back = (front - 1) mod Q holds a sample that *)
(* was actually written, imuTime[back] <= tp <= imuTime[front] and         *)
(* imuTime[back] < imuTime[front] (so both weights lie in [0, 1]), for     *)
(* every interleaving of IMU and sweep callbacks, including before the     *)
(* ring has filled and when tp is earlier than every stored sample.        *)
(***************************************************************************)
C19_InterpolationBracket ==
  last.ran =>
    \A n \in 1..Len(last.locals.trace) :
      LET t == last.locals.trace[n]
          b == t.bracket
      IN (t.imu /\ b.interpolated) =>
           /\ b.back \in Written
           /\ b.timeBack * b.relDen <= b.tpNum
           /\ b.tpNum <= b.timeFront * b.relDen
           /\ b.timeBack < b.timeFront

(***************************************************************************)
(* C20. Beam boundary detection.  During the curvature pass over the       *)
(* concatenated cloud scanCount never decreases and the transition branch  *)
(* is entered at most once for each beam id, for every set of kept points  *)
(* (with relTime anywhere in its admitted range): the values scanCount     *)
(* takes are strictly increasing.                                          *)
(***************************************************************************)
C20_BeamBoundaryOnce ==
  last.ran =>
    \A m \in 1..Len(last.locals.entered), n \in 1..Len(last.locals.entered) :
      m < n => last.locals.entered[m] < last.locals.entered[n]

(***************************************************************************)
(* C21. Cursor search terminates.  For every point and every ring state    *)
(* with imuPointerLast in [0, Q-1], the loop that advances imuPointerFront *)
(* stops after at most Q-1 increments, leaves imuPointerFront in [0, Q-1], *)
(* only moves it forward modulo Q (over slots whose stamp is not later     *)
(* than the point) and never past imuPointerLast within one search;        *)
(* imuPointerLast is changed only by the IMU callback and stays in         *)
(* [0, Q-1] after the first sample.                                        *)
(***************************************************************************)
\* the number of increments that take the cursor from slot a to slot b
Increments(a, b) == (b - a + imuQueLength) % imuQueLength

\* the search of the point noted as `t`, run on the ring with cursor `pointer`
SearchOk(t, pointer) ==
  LET moved == Increments(t.from, t.bracket.front)
  IN /\ t.bracket.front \in ImuSlots
     /\ moved <= imuQueLength - 1
     /\ moved <= Increments(t.from, pointer)
     /\ \A d \in 0..moved - 1 :
          ~(t.bracket.tpNum < imu[(t.from + d) % imuQueLength].time * t.bracket.relDen)
     /\ \/ t.bracket.front = pointer
        \/ t.bracket.tpNum < imu[t.bracket.front].time * t.bracket.relDen

C21_CursorSearch ==
  [][/\ imuPointerFront' \in ImuSlots
     /\ imuPointerLast' # imuPointerLast =>
          (imuCalls' = imuCalls + 1 /\ sweepCalls' = sweepCalls
             /\ imuPointerLast' = (imuPointerLast + 1) % imuQueLength)
     /\ imuCalls' >= 1 => imuPointerLast' \in ImuSlots
     /\ (sweepCalls' = sweepCalls + 1 /\ last'.ran /\ imuPointerLast >= 0) =>
          LET trace == last'.locals.trace
          IN /\ \A n \in 1..Len(trace) : trace[n].imu /\ SearchOk(trace[n], imuPointerLast)
             /\ \A n \in 1..Len(trace) :
                  trace[n].from = IF n = 1 THEN imuPointerFront
                                  ELSE trace[n - 1].bracket.front
             /\ Len(trace) > 0 => imuPointerFront' = trace[Len(trace)].bracket.front
             /\ Len(trace) = 0 => imuPointerFront' = imuPointerFront]_vars

\* a search that wrapped: the cursor went from the end of the ring, over slot
\* Q-1, to a slot at its beginning
C21_SearchWrapped ==
  /\ last.ran
  /\ \E n \in 1..Len(last.locals.trace) :
       LET t == last.locals.trace[n]
       IN /\ t.imu
          /\ t.bracket.front < t.from
          /\ Increments(t.from, t.bracket.front) >= 2
          /\ t.bracket.front = imuPointerLast

(***************************************************************************)
(* C22. Index safety of the feature stages.  In every processed sweep,     *)
(* every index used to read the concatenated cloud or to read or write     *)
(* curvature, sort-index, picked or label lies in [0, cloudSize-1], and    *)
(* every entry read as curvature, picked, label or sort-index was          *)
(* initialised by this sweep's curvature pass: no access fell outside the  *)
(* cloud, every sector iterates over positions 5 .. cloudSize-6 only, and  *)
(* every selected index lies there too.                                    *)
(***************************************************************************)
\* the positions k at which some sector of the latest sweep read
\* cloudSortInd[k] and cloudLabel[k]
SectorPositions ==
  UNION {last.locals.sectors[n].sp .. last.locals.sectors[n].ep :
           n \in 1..Len(last.locals.sectors)}

C22_IndexSafety ==
  last.ran =>
    /\ ~last.oob
    /\ SectorPositions \subseteq CurveRange(last.locals.cloudSize)
    /\ (CornerIndices \cup FlatIndices) \subseteq CurveRange(last.locals.cloudSize)

====
